---- MODULE Spec2Model ----
(***************************************************************************)
(* NSLoggerClient: the logging facade (Logger), the worker thread          *)
(* (MessageWorker / MessageHandler), the shared LoggerState with its       *)
(* outbound queue and sink, and the wire codec (LogMessage).               *)
(*                                                                         *)
(* Logger's methods take `&mut self`, so calls on one Logger are mutually  *)
(* exclusive: at most one producer is inside a Logger method at a time.    *)
(* The worker thread runs concurrently with that producer and shares the   *)
(* LoggerState through a mutex; a panic of the worker while it holds the   *)
(* mutex poisons it, and every later lock().unwrap() panics.               *)
(***************************************************************************)
EXTENDS Integers, Sequences, FiniteSets, TLC

\* ---------------------------------------------------------------- bounds
\* log_a calls made on the Logger
MaxLogs == 2
\* other calls made on the Logger (set_remote_host, option change, shutdown)
MaxFacadeCalls == 2
\* sequence-number allocations followed from a given counter value
MaxAlloc == 4
\* add_* calls followed on one message
MaxParts == 3
\* SetupBonjour actions sent to the NetworkManager
MaxDiscoveries == 2

\* ------------------------------------------------------ program constants
U16 == 65536

Producers == {"p1", "p2"}
Hosts == {"10.0.0.1"}
Ports == {50000}
\* the wall clock, in milliseconds, when the first message is built
ClockBase == 1000
Texts == {<<104, 105>>}
Level_Info == 3

\* Option<T>: None is the empty sequence, Some(x) the one-element sequence
None == <<>>

Some(x) == <<x>>

unwrap(o) == o[1]

\* LoggerOptions bit flags, kept as the set of flags that are set
FLUSH_EACH_MESSAGE == "FLUSH_EACH_MESSAGE"
BROWSE_BONJOUR == "BROWSE_BONJOUR"
USE_SSL == "USE_SSL"
ROUTE_TO_LOGCAT == "ROUTE_TO_LOGCAT"

\* LogMessageType
LOG == 0
CLIENT_INFO == 3

\* MessagePartKey
MESSAGE_TYPE == 0
TIMESTAMP_S == 1
TIMESTAMP_MS == 2
THREAD_ID == 4
TAG == 5
LEVEL == 6
MESSAGE == 7
MESSAGE_SEQ == 10
LINENUMBER == 12

\* MessagePartType
STRING_T == 0
INT16 == 2
INT32 == 3
INT64 == 4

\* "Thread ID" as UTF-8 bytes
ThreadIdText == <<84, 104, 114, 101, 97, 100, 32, 73, 68>>

\* ------------------------------------------------------------- wire codec
\* data_used is a u32 too; it counts the bytes of one message and stays far
\* below 2^31 here, so it is kept as a plain integer.
BE2(n) == <<(n \div 256) % 256, n % 256>>

\* A u32 that can come near 2^32 (a sequence number) is kept as its two
\* 16-bit halves <<high, low>>: TLC's integers stop at 2^31 - 1.
u32(n) == <<(n \div U16) % U16, n % U16>>

\* wrapping addition of 1 on a u32
inc32(x) == IF x[2] + 1 < U16 THEN <<x[1], x[2] + 1>> ELSE <<(x[1] + 1) % U16, 0>>

\* write_u32::<BigEndian> of a u32 kept as halves
BE4(x) == BE2(x[1]) \o BE2(x[2])

\* write_u64::<BigEndian> of a value below 2^31
BE8(n) == <<0, 0, 0, 0>> \o BE4(u32(n))

add_int64(m, key, value) ==
    [m EXCEPT !.data_used = @ + 10,
              !.data = @ \o <<key, INT64>> \o BE8(value),
              !.part_count = (@ + 1) % U16]

add_int32(m, key, value) ==
    [m EXCEPT !.data_used = @ + 6,
              !.data = @ \o <<key, INT32>> \o BE4(value),
              !.part_count = (@ + 1) % U16]

\* mutation of add_int16: the part is put in front of the parts already there
add_int16_in_front(m, key, value) ==
    [m EXCEPT !.data_used = @ + 4,
              !.data = <<key, INT16>> \o BE2(value) \o @,
              !.part_count = (@ + 1) % U16]

add_int16(m, key, value) ==
    [m EXCEPT !.data_used = @ + 4,
              !.data = @ \o <<key, INT16>> \o BE2(value),
              !.part_count = (@ + 1) % U16]

\* mutation of add_bytes: data_used leaves out the 4-byte length of the payload
add_bytes_length_uncounted(m, key, data_type, bytes) ==
    [m EXCEPT !.data_used = @ + 2 + Len(bytes),
              !.data = @ \o <<key, data_type>> \o BE4(u32(Len(bytes))) \o bytes,
              !.part_count = (@ + 1) % U16]

add_bytes(m, key, data_type, bytes) ==
    [m EXCEPT !.data_used = @ + 6 + Len(bytes),
              !.data = @ \o <<key, data_type>> \o BE4(u32(Len(bytes))) \o bytes,
              !.part_count = (@ + 1) % U16]

add_string(m, key, string) == add_bytes(m, key, STRING_T, string)

\* value = 0 in the source means "read the wall clock"; now is that reading
add_timestamp(m, now) ==
    add_int16(add_int64(m, TIMESTAMP_S, now \div 1000), TIMESTAMP_MS, now % 1000)

add_thread_id(m) == add_string(m, THREAD_ID, ThreadIdText)

NewLogMessage(message_type, sequence_number, now) ==
    add_thread_id(
      add_timestamp(
        add_int32(
          add_int32([sequence_number |-> sequence_number, data |-> <<>>,
                     data_used |-> 6, part_count |-> 0],
                    MESSAGE_TYPE, u32(message_type)),
          MESSAGE_SEQ, sequence_number),
        now))

get_bytes(m) ==
    IF m.data_used = Len(m.data)
    THEN m.data
    ELSE BE4(u32(m.data_used - 4)) \o BE2(m.part_count) \o m.data


RECURSIVE Flatten(_)
\* concatenation of the encodings of a sequence of messages
Flatten(ms) == IF ms = <<>> THEN <<>> ELSE get_bytes(Head(ms)) \o Flatten(Tail(ms))

\* ------------------------------------------------------------------ state
VARIABLES
    state,                    \* the LoggerState behind Arc<Mutex<..>>
    poisoned,                 \* the mutex was held by a thread that panicked
    message_receiver,         \* Logger.message_receiver: "Some" until handed to the worker
    worker_thread_channel_rx, \* Logger.worker_thread_channel_rx
    channel,                  \* commands in flight on the mpsc channel
    wpc,                      \* position of the worker thread
    ppc,                      \* position of each producer thread
    waiting,                  \* start_logging_thread_if_needed's local `waiting`
    sink,                     \* bytes the peer of the sink has received
    log_message,              \* a LogMessage under construction (`let mut log_message`)
    net,                      \* the NetworkManager thread and its two channels
    h                         \* observation of the run (history)

vars == <<state, poisoned, message_receiver, worker_thread_channel_rx, channel,
          wpc, ppc, waiting, sink, log_message, net, h>>

\* LoggerState::new / Logger::new
InitState ==
    [ready |-> FALSE,
     ready_waiters |-> <<>>,
     options |-> {BROWSE_BONJOUR, USE_SSL},
     is_reconnection_scheduled |-> FALSE,
     is_connecting |-> FALSE,
     is_connected |-> FALSE,
     is_handler_running |-> FALSE,
     is_client_info_added |-> FALSE,
     remote_host |-> None,
     remote_port |-> None,
     write_stream |-> None,
     bonjour_service_type |-> None,
     bonjour_service_name |-> None,
     next_sequence_numbers |-> u32(0),
     log_messages |-> <<>>]

InitHistory ==
    [added |-> <<>>,          \* messages pushed by ADD_LOG, in processing order
     info |-> <<>>,           \* client-info messages inserted
     written |-> <<>>,        \* messages whose write_all returned Ok, in order
     allocated |-> <<>>,      \* values returned by fetch_add, in order
     allocators |-> <<>>,     \* the thread that made each allocation
     start |-> u32(0),        \* the counter's value at construction
     trigger |-> None,        \* the command whose handling first wrote to the sink
     spawned |-> 0,           \* worker threads spawned
     calls |-> 0,             \* log_a calls entered
     returned |-> 0,          \* log_a calls that returned
     sent_logs |-> 0,         \* ADD_LOG commands log_a put on the channel
     facade |-> 0,            \* set_remote_host, option change and shutdown calls
     opened |-> 0,            \* sink objects opened
     closed |-> 0,            \* sink objects closed (dropped)
     connect |-> None,        \* what the last connect_to_remote did
     fault |-> None,          \* why the worker thread panicked
     handled |-> 0,           \* commands the handler loop has finished
     construction |-> <<>>,   \* the (key, type, value) parts LogMessage::new added
     parts |-> <<>>,          \* the (key, type, value) of each add_* call followed
     base_count |-> 0,        \* parts the message had before the calls in parts
     base_bytes |-> 0,        \* bytes the claim counts for those parts
     drain |-> None]          \* what the last direct call of process_log_queue did

\* NetworkManager::new, before its thread runs
InitNet ==
    [pc |-> "unspawned",
     action_receiver |-> <<>>,   \* NetworkActionMessages in flight
     senders |-> TRUE,           \* a Sender of action_receiver's channel is alive
     sent |-> <<>>,              \* commands sent on message_sender, in order
     received |-> 0,             \* SetupBonjour actions taken from the channel
     service_name |-> None,      \* run(): the service_name of the action served
     is_connected |-> FALSE,     \* run(): `let mut is_connected`
     current_delay |-> None,     \* run(): `let mut current_delay`
     delay_ms |-> None,          \* setup_bonjour(): its delay_ms argument
     timeout |-> FALSE,          \* setup_bonjour(): core.run waits on a Timeout too
     browse_result |-> None,     \* setup_bonjour(): what the browse gave
     resolve_details |-> None,   \* setup_bonjour(): what the resolve gave
     status |-> None,            \* what setup_bonjour returned
     fault |-> None]             \* the unwrap() that panicked

Init ==
    /\ state = InitState
    /\ poisoned = FALSE
    /\ message_receiver = Some("rx")
    /\ worker_thread_channel_rx = None
    /\ channel = <<>>
    /\ wpc = "unspawned"
    /\ ppc = [p \in Producers |-> "idle"]
    /\ waiting = [p \in Producers |-> FALSE]
    /\ sink = <<>>
    /\ log_message = None
    /\ net = InitNet
    /\ h = InitHistory

\* SystemTime::now() in milliseconds: the clock advances between any two
\* messages that are built
Now == ClockBase + Len(h.allocated)

\* the receiving half is dropped when the worker thread ends; send() then
\* returns Err, which every caller ignores
ReceiverAlive == wpc \notin {"done", "panicked"}

\* mutation of Send: the commands overtake those already in the channel
Send_in_front(ch, cmds) == IF ReceiverAlive THEN cmds \o ch ELSE ch

Send(ch, cmds) == IF ReceiverAlive THEN ch \o cmds ELSE ch

\* AtomicU32::fetch_add(1): returns the old value, wraps on overflow
fetch_add(n) == inc32(n)

\* mutation of get_and_increment_sequence_number: the counter is read but the
\* incremented value is not stored
get_without_increment(s) ==
    [value |-> s.next_sequence_numbers, state |-> s]

get_and_increment_sequence_number(s) ==
    [value |-> s.next_sequence_numbers,
     state |-> [s EXCEPT !.next_sequence_numbers = fetch_add(@)]]


\* ------------------------------------------------------------ LoggerState
\* what one call on the LoggerState did, besides changing it
Outcome(s) ==
    [state |-> s,
     wrote |-> <<>>,      \* bytes that reached the sink
     written |-> <<>>,    \* messages whose write_all returned Ok
     sent |-> <<>>,       \* commands sent on message_sender
     alloc |-> <<>>,      \* sequence numbers allocated
     info |-> <<>>,       \* client-info messages inserted
     opened |-> 0,
     closed |-> 0,
     connect |-> None,
     fault |-> None]      \* the panic that ended the call, if any

\* how many bytes of a message reach the peer when write_all fails on it
PartialLens(n) == {0, n \div 2, n - 1}

\* mutation of first: the message written is the one at the tail
last_queued(q) == q[Len(q)]

first(q) == q[1]

\* mutation of remove0: the message removed is the one at the tail
remove_last(q) == SubSeq(q, 1, Len(q) - 1)

remove0(q) == Tail(q)

RECURSIVE WriteLoop(_, _, _)
\* the while loop of write_messages_to_stream: each iteration either fails in
\* write_all (expect() panics, the message is still in the queue) or writes
\* the whole message and removes it. The messages are those log_a builds
\* (mod.rs), which carry no flush_tx/flush_rx, so the flush signal of
\* logger_state.rs:276-279 has nothing to act on.
WriteLoop(q, wrote, written) ==
    IF q = <<>>
    THEN {[queue |-> q, wrote |-> wrote, written |-> written, failed |-> FALSE]}
    ELSE LET message == first(q)
             message_bytes == get_bytes(message)
         IN  {[queue |-> q,
               wrote |-> wrote \o SubSeq(message_bytes, 1, k),
               written |-> written,
               failed |-> TRUE] : k \in PartialLens(Len(message_bytes))}
             \cup WriteLoop(remove0(q), wrote \o message_bytes, Append(written, message))

\* mutation of write_messages_to_stream: the loop body never runs
write_nothing(s) == {Outcome(s)}

write_messages_to_stream(s) ==
    IF s.log_messages = <<>>
    THEN {Outcome(s)}
    ELSE IF s.write_stream = None
    THEN {[Outcome(s) EXCEPT !.fault = Some("unwrap_no_stream")]}
    ELSE {[Outcome([s EXCEPT !.log_messages = r.queue])
              EXCEPT !.wrote = r.wrote,
                     !.written = r.written,
                     !.fault = IF r.failed THEN Some("write_failed") ELSE None]
          : r \in WriteLoop(s.log_messages, <<>>, <<>>)}

flush_queue_to_buffer_stream(s) == write_messages_to_stream(s)

\* mutation of insert0: the client-info message goes to the tail
insert_at_tail(q, m) == Append(q, m)

insert0(q, m) == <<m>> \o q

\* mutation of push_client_info_to_front_of_queue: the flag is not raised
push_client_info_flag_not_raised(s, now) ==
    LET a == get_and_increment_sequence_number(s)
        message == NewLogMessage(CLIENT_INFO, a.value, now)
    IN  [state |-> [a.state EXCEPT !.log_messages = insert0(@, message)],
         alloc |-> <<a.value>>,
         info |-> <<message>>]

push_client_info_to_front_of_queue(s, now) ==
    LET a == get_and_increment_sequence_number(s)
        message == NewLogMessage(CLIENT_INFO, a.value, now)
    IN  [state |-> [a.state EXCEPT !.log_messages = insert0(@, message),
                                   !.is_client_info_added = TRUE],
         alloc |-> <<a.value>>,
         info |-> <<message>>]

process_log_queue(s, now) ==
    IF s.log_messages = <<>>
    THEN {Outcome(s)}
    ELSE LET o1 == IF ~s.is_client_info_added
                   THEN push_client_info_to_front_of_queue(s, now)
                   ELSE [state |-> s, alloc |-> <<>>, info |-> <<>>]
             s1 == o1.state
             os == IF s1.remote_host = None
                   THEN flush_queue_to_buffer_stream(s1)
                   ELSE IF s1.is_connected
                   THEN write_messages_to_stream(s1)
                   ELSE {Outcome(s1)}
         IN  {[o EXCEPT !.alloc = o1.alloc, !.info = o1.info] : o \in os}

\* `!(self.options | USE_SSL).is_empty()`
ssl_selected(options) == (options \cup {USE_SSL}) # {}

\* mutation of sink_present: the guard of connect_to_remote is missing
sink_never_present(s) == FALSE

sink_present(s) == s.write_stream # None

\* `format!("{}:{}", remote_host, self.remote_port.unwrap())`
connect_string(s) == [host |-> unwrap(s.remote_host), port |-> unwrap(s.remote_port)]

\* the literal "192.168.0.8:60582" of mod.rs:314
TestAddress == [host |-> "192.168.0.8", port |-> 60582]

\* what one invocation of connect_to_remote did; target is the address given
\* to TcpStream::connect
ConnectRecord(s, target, after, result, sent, opened, handshake) ==
    Some([had_sink |-> s.write_stream # None, before |-> s.write_stream,
          after |-> after, result |-> result, sent |-> sent,
          opened |-> opened, handshake |-> handshake,
          host |-> s.remote_host, port |-> s.remote_port,
          target |-> target,
          use_ssl |-> USE_SSL \in s.options])

\* mutation of connect_to_configured: the plain stream is taken for the
\* handshake and the encrypted one is not installed
connect_to_configured_stream_taken(s) ==
    LET peer == connect_string(s)
        ssl == Some([kind |-> "Ssl", peer |-> peer])
    IN  {[Outcome(s) EXCEPT !.connect =
              ConnectRecord(s, Some(peer), None, "Err", 0, 0, FALSE)],
         [Outcome([s EXCEPT !.write_stream = None])
              EXCEPT !.sent = <<[type |-> "CONNECT_COMPLETE"]>>,
                     !.opened = 1,
                     !.closed = 1,
                     !.connect = ConnectRecord(s, Some(peer), None, "Ok", 1, 1, TRUE)]}

\* connect_to_remote as logger_state.rs has it: the TCP connection goes to
\* connect_string and is then wrapped in TLS
connect_to_configured(s) ==
    LET peer == connect_string(s)
        tcp == Some([kind |-> "Tcp", peer |-> peer])
        ssl == Some([kind |-> "Ssl", peer |-> peer])
    IN  \* TcpStream::connect fails
        {[Outcome(s) EXCEPT !.connect =
              ConnectRecord(s, Some(peer), None, "Err", 0, 0, FALSE)]}
        \cup
        (IF ssl_selected(s.options)
         THEN { \* the handshake succeeds
                [Outcome([s EXCEPT !.write_stream = ssl])
                   EXCEPT !.sent = <<[type |-> "CONNECT_COMPLETE"]>>,
                          !.opened = 1,
                          !.connect = ConnectRecord(s, Some(peer), ssl, "Ok", 1, 1, TRUE)],
                \* the handshake fails: unwrap() panics after take()
                [Outcome([s EXCEPT !.write_stream = None])
                   EXCEPT !.opened = 1,
                          !.closed = 1,
                          !.fault = Some("tls_failed"),
                          !.connect = ConnectRecord(s, Some(peer), None, "panic", 0, 1, TRUE)] }
         ELSE { [Outcome([s EXCEPT !.write_stream = tcp])
                   EXCEPT !.sent = <<[type |-> "CONNECT_COMPLETE"]>>,
                          !.opened = 1,
                          !.connect = ConnectRecord(s, Some(peer), tcp, "Ok", 1, 1, FALSE)] })

\* mutation of connect_to_literal: a failed TCP connect keeps a stream and
\* sends CONNECT_COMPLETE all the same
connect_to_literal_announcing_failure(s) ==
    LET tcp == Some([kind |-> "Tcp", peer |-> TestAddress])
    IN  { [Outcome([s EXCEPT !.write_stream = tcp])
              EXCEPT !.sent = <<[type |-> "CONNECT_COMPLETE"]>>,
                     !.opened = 1,
                     !.connect = ConnectRecord(s, Some(TestAddress), tcp, "Err", 1, 1, FALSE)],
          [Outcome([s EXCEPT !.write_stream = tcp])
              EXCEPT !.sent = <<[type |-> "CONNECT_COMPLETE"]>>,
                     !.opened = 1,
                     !.connect = ConnectRecord(s, Some(TestAddress), tcp, "Ok", 1, 1, FALSE)] }

\* connect_to_remote as mod.rs has it: connect_string is built and dropped,
\* the TCP connection goes to the literal address, and the stream is kept as
\* it is (the handshake is commented out; both branches send CONNECT_COMPLETE)
connect_to_literal(s) ==
    LET tcp == Some([kind |-> "Tcp", peer |-> TestAddress])
    IN  { [Outcome(s) EXCEPT !.connect =
              ConnectRecord(s, Some(TestAddress), None, "Err", 0, 0, FALSE)],
          [Outcome([s EXCEPT !.write_stream = tcp])
              EXCEPT !.sent = <<[type |-> "CONNECT_COMPLETE"]>>,
                     !.opened = 1,
                     !.connect = ConnectRecord(s, Some(TestAddress), tcp, "Ok", 1, 1, FALSE)] }

\* The repository holds connect_to_remote twice (mod.rs:299-368 and
\* logger_state.rs:156-232). They agree up to the unwrap of the endpoint and
\* differ in the address connected to and in the handshake; a build has one
\* of them, so every invocation has the outcomes of either.
connect_to_remote(s) ==
    IF sink_present(s)
    THEN {[Outcome(s) EXCEPT !.connect =
              ConnectRecord(s, None, s.write_stream, "Err", 0, 0, FALSE)]}
    ELSE IF s.remote_host = None \/ s.remote_port = None
    THEN {[Outcome(s) EXCEPT !.fault = Some("unwrap_no_host"),
                             !.connect = ConnectRecord(s, None, None, "panic", 0, 0, FALSE)]}
    ELSE connect_to_configured(s) \cup connect_to_literal(s)

change_options(s, new_options) == connect_to_remote(s)


\* ------------------------------------------------------------ the producer
\* &mut self: no other call on the Logger is in progress
LoggerFree == \A q \in Producers : ppc[q] = "idle"

\* mutation of take: the receiver is left in the Logger
take_and_keep(receiver) == receiver

take(receiver) == None

\* Logger::log_a is entered
LogAEnter(p) ==
    /\ LoggerFree
    /\ h.calls < MaxLogs
    /\ ppc' = [ppc EXCEPT ![p] = "start"]
    /\ waiting' = [waiting EXCEPT ![p] = FALSE]
    /\ h' = [h EXCEPT !.calls = @ + 1]
    /\ UNCHANGED <<state, poisoned, message_receiver, worker_thread_channel_rx, log_message, net,
                   channel, wpc, sink>>

\* start_logging_thread_if_needed, the match on message_receiver
StartThread(p) ==
    /\ ppc[p] = "start"
    /\ IF message_receiver # None
       THEN /\ state' = [state EXCEPT !.ready_waiters = Append(@, p)]
            /\ message_receiver' = take(message_receiver)
            /\ wpc' = "init"
            /\ h' = [h EXCEPT !.spawned = @ + 1]
            /\ waiting' = [waiting EXCEPT ![p] = TRUE]
       ELSE UNCHANGED <<state, message_receiver, wpc, h, waiting>>
    /\ ppc' = [ppc EXCEPT ![p] = "wait"]
    /\ UNCHANGED <<poisoned, worker_thread_channel_rx, log_message, net, channel, sink>>

\* mutation of loop_exits: the wait loop does not look at ready
loop_always_exits(s) == TRUE

loop_exits(s) == s.ready

\* `while !self.shared_state.lock().unwrap().ready`
WaitCheck(p) ==
    /\ ppc[p] = "wait"
    /\ ppc' = [ppc EXCEPT ![p] = IF poisoned THEN "panicked"
                                 ELSE IF loop_exits(state) THEN "check_running"
                                 ELSE "park"]
    /\ UNCHANGED <<state, poisoned, message_receiver, worker_thread_channel_rx, log_message, net,
                   channel, wpc, waiting, sink, h>>

\* the loop body: register as a waiter if not yet done, then park_timeout,
\* which returns on unpark or after 100 ms
Park(p) ==
    /\ ppc[p] = "park"
    /\ IF ~waiting[p]
       THEN IF poisoned
            THEN /\ ppc' = [ppc EXCEPT ![p] = "panicked"]
                 /\ UNCHANGED <<state, waiting>>
            ELSE /\ state' = [state EXCEPT !.ready_waiters = Append(@, p)]
                 /\ waiting' = [waiting EXCEPT ![p] = TRUE]
                 /\ ppc' = [ppc EXCEPT ![p] = "wait"]
       ELSE /\ ppc' = [ppc EXCEPT ![p] = "wait"]
            /\ UNCHANGED <<state, waiting>>
    /\ UNCHANGED <<poisoned, message_receiver, worker_thread_channel_rx, log_message, net,
                   channel,
                   wpc, sink, h>>

\* log_a: `if !is_handler_running { return }`
CheckRunning(p) ==
    /\ ppc[p] = "check_running"
    /\ IF poisoned
       THEN /\ ppc' = [ppc EXCEPT ![p] = "panicked"]
            /\ h' = h
       ELSE IF ~state.is_handler_running
       THEN /\ ppc' = [ppc EXCEPT ![p] = "idle"]
            /\ h' = [h EXCEPT !.returned = @ + 1]
       ELSE /\ ppc' = [ppc EXCEPT ![p] = "create"]
            /\ h' = h
    /\ UNCHANGED <<state, poisoned, message_receiver, worker_thread_channel_rx, log_message, net,
                   channel, wpc, waiting, sink>>

\* log_a: the message is built from a freshly allocated sequence number
new_log_message(s, level, text, now) ==
    LET a == get_and_increment_sequence_number(s)
    IN  [state |-> a.state,
         value |-> a.value,
         message |-> add_string(
                       add_int16(NewLogMessage(LOG, a.value, now), LEVEL, level),
                       MESSAGE, text)]

\* log_a: allocate the sequence number, build the message, send ADD_LOG
CreateAndSend(p) ==
    /\ ppc[p] = "create"
    /\ IF poisoned
       THEN /\ ppc' = [ppc EXCEPT ![p] = "panicked"]
            /\ UNCHANGED <<state, channel, h>>
       ELSE \E text \in Texts :
              LET a == new_log_message(state, Level_Info, text, Now)
              IN  /\ state' = a.state
                  /\ channel' = Send(channel, <<[type |-> "ADD_LOG", message |-> a.message]>>)
                  /\ h' = [h EXCEPT !.allocated = Append(@, a.value),
                                    !.allocators = Append(@, p),
                                    !.returned = @ + 1,
                                    !.sent_logs = IF ReceiverAlive THEN @ + 1 ELSE @]
                  /\ ppc' = [ppc EXCEPT ![p] = "idle"]
    /\ UNCHANGED <<poisoned, message_receiver, worker_thread_channel_rx, log_message, net,
                   wpc,
                   waiting, sink>>

\* Logger::set_remote_host
set_remote_host(p, host_name, host_port, use_ssl) ==
    /\ LoggerFree
    /\ h.facade < MaxFacadeCalls
    /\ IF worker_thread_channel_rx # None
       THEN /\ channel' = Send(channel,
                    <<[type |-> "OPTION_CHANGE",
                       properties |-> [remote_host |-> host_name,
                                       remote_port |-> host_port,
                                       use_ssl |-> use_ssl]]>>)
            /\ UNCHANGED <<state, ppc>>
       ELSE IF poisoned
       THEN /\ ppc' = [ppc EXCEPT ![p] = "panicked"]
            /\ UNCHANGED <<state, channel>>
       ELSE /\ state' = [state EXCEPT
                    !.remote_host = Some(host_name),
                    !.remote_port = Some(host_port),
                    !.options = IF use_ssl THEN @ \cup {USE_SSL} ELSE @ \ {USE_SSL}]
            /\ UNCHANGED <<channel, ppc>>
    /\ h' = [h EXCEPT !.facade = @ + 1]
    /\ UNCHANGED <<poisoned, message_receiver, worker_thread_channel_rx, log_message, net,
                   wpc,
                   waiting, sink>>


\* the producer-facing option change of the facade: sends OPTION_CHANGE
apply_option_change(host_name, host_port, use_ssl) ==
    /\ LoggerFree
    /\ h.facade < MaxFacadeCalls
    /\ channel' = Send(channel,
            <<[type |-> "OPTION_CHANGE",
               properties |-> [remote_host |-> host_name,
                               remote_port |-> host_port,
                               use_ssl |-> use_ssl]]>>)
    /\ h' = [h EXCEPT !.facade = @ + 1]
    /\ UNCHANGED <<state, poisoned, message_receiver, worker_thread_channel_rx, log_message, net,
                   wpc, ppc, waiting, sink>>

\* the producer-facing shutdown of the facade: sends QUIT
shutdown ==
    /\ LoggerFree
    /\ h.facade < MaxFacadeCalls
    /\ channel' = Send(channel, <<[type |-> "QUIT"]>>)
    /\ h' = [h EXCEPT !.facade = @ + 1]
    /\ UNCHANGED <<state, poisoned, message_receiver, worker_thread_channel_rx, log_message, net,
                   wpc, ppc, waiting, sink>>

\* -------------------------------------------------------------- the worker
\* the effect on the whole system of a call the worker made on the
\* LoggerState while holding the mutex; a panic poisons the mutex and drops
\* the worker's receiver with whatever is still in the channel
WorkerApply(o, rest, next_pc, h0, cmd) ==
    /\ state' = o.state
    /\ sink' = sink \o o.wrote
    /\ wpc' = IF o.fault # None THEN "panicked" ELSE next_pc
    /\ poisoned' = (poisoned \/ o.fault # None)
    /\ channel' = IF o.fault # None THEN <<>> ELSE rest \o o.sent
    /\ h' = [h0 EXCEPT !.written = @ \o o.written,
                       !.allocated = @ \o o.alloc,
                       !.allocators = @ \o [i \in 1..Len(o.alloc) |-> "worker"],
                       !.trigger = IF @ = None /\ (o.written # <<>> \/ o.wrote # <<>>
                                                   \/ o.fault = Some("write_failed"))
                                   THEN Some(cmd) ELSE @,
                       !.info = @ \o o.info,
                       !.opened = @ + o.opened,
                       !.closed = @ + o.closed,
                       !.connect = IF o.connect # None THEN o.connect ELSE @,
                       !.fault = IF o.fault # None THEN o.fault ELSE @]
    /\ UNCHANGED <<message_receiver, worker_thread_channel_rx, log_message, net,
                   ppc, waiting>>

\* MessageWorker::setup_bonjour: what the browse and the resolve can end in
BonjourOutcomes ==
    {[kind |-> k, host |-> None, port |-> None]
        : k \in {"timed_out", "unresolved", "global_only", "panic"}}
    \cup {[kind |-> "found", host |-> Some(host), port |-> Some(port)]
        : host \in Hosts, port \in Ports}

bonjour_service_type(options) ==
    IF USE_SSL \notin options THEN "_nslogger._tcp" ELSE "_nslogger-ssl._tcp"

setup_bonjour(s, b) ==
    LET s1 == [s EXCEPT !.bonjour_service_type = Some(bonjour_service_type(s.options))]
        s2 == [s1 EXCEPT !.bonjour_service_name = Some("viewer")]
    IN  CASE b.kind = "timed_out" -> Outcome(s1)
          [] b.kind = "unresolved" -> Outcome(s2)
          [] b.kind = "global_only" ->
                [Outcome(s2) EXCEPT !.sent = <<[type |-> "TRY_CONNECT"]>>]
          [] b.kind = "found" ->
                [Outcome([s2 EXCEPT !.remote_host = b.host, !.remote_port = b.port])
                    EXCEPT !.sent = <<[type |-> "TRY_CONNECT"]>>]
          [] OTHER -> Outcome(s1)

\* MessageWorker::run, the initial setup. log_file_path is None from
\* LoggerState::new on and nothing sets it, so the buffer-file branch of
\* message_worker.rs:39-41 is never taken.
WorkerInit ==
    /\ wpc = "init"
    /\ IF state.remote_host # None /\ state.remote_port # None
       THEN \E o \in connect_to_remote(state) : WorkerApply(o, channel, "set_ready", h, "init")
       ELSE IF BROWSE_BONJOUR \in state.options
       THEN \E b \in BonjourOutcomes :
              IF b.kind = "panic"
              THEN \* an unwrap() of the discovery result, outside the mutex
                   /\ wpc' = "panicked"
                   /\ channel' = <<>>
                   /\ state' = [state EXCEPT !.bonjour_service_type =
                                    Some(bonjour_service_type(state.options))]
                   /\ h' = [h EXCEPT !.fault = Some("bonjour_unwrap")]
                   /\ UNCHANGED <<poisoned, message_receiver, worker_thread_channel_rx, log_message, net,
                                  ppc, waiting, sink>>
              ELSE WorkerApply(setup_bonjour(state, b), channel, "set_ready", h, "init")
       ELSE WorkerApply(Outcome(state), channel, "set_ready", h, "init")

\* MessageWorker::run: ready = true
WorkerSetReady ==
    /\ wpc = "set_ready"
    /\ state' = [state EXCEPT !.ready = TRUE]
    /\ wpc' = "unpark"
    /\ UNCHANGED <<poisoned, message_receiver, worker_thread_channel_rx, log_message, net,
                   channel,
                   ppc, waiting, sink, h>>

\* MessageWorker::run: pop and unpark the registered waiters, one per iteration
WorkerUnpark ==
    /\ wpc = "unpark"
    /\ IF state.ready_waiters # <<>>
       THEN /\ state' = [state EXCEPT !.ready_waiters =
                            SubSeq(@, 1, Len(@) - 1)]
            /\ wpc' = wpc
       ELSE /\ wpc' = "run_loop"
            /\ state' = state
    /\ UNCHANGED <<poisoned, message_receiver, worker_thread_channel_rx, log_message, net,
                   channel,
                   ppc, waiting, sink, h>>

\* MessageHandler::run_loop: is_handler_running = true
WorkerRunLoop ==
    /\ wpc = "run_loop"
    /\ state' = [state EXCEPT !.is_handler_running = TRUE]
    /\ wpc' = "recv"
    /\ UNCHANGED <<poisoned, message_receiver, worker_thread_channel_rx, log_message, net,
                   channel,
                   ppc, waiting, sink, h>>

Receives(type) == wpc = "recv" /\ channel # <<>> /\ Head(channel).type = type

\* mutation of push: the message goes to the head of the queue
push_at_head(q, message) == <<message>> \o q

push(q, message) == Append(q, message)

HandleAddLog ==
    /\ Receives("ADD_LOG")
    /\ LET message == Head(channel).message
           s1 == [state EXCEPT !.log_messages = push(@, message)]
           h0 == [h EXCEPT !.added = Append(@, message), !.handled = @ + 1]
       IN  IF s1.is_connected
           THEN \E o \in process_log_queue(s1, Now) :
                    WorkerApply(o, Tail(channel), "recv", h0, "ADD_LOG")
           ELSE WorkerApply(Outcome(s1), Tail(channel), "recv", h0, "ADD_LOG")

HandleOptionChange ==
    /\ Receives("OPTION_CHANGE")
    /\ \E o \in change_options(state, Head(channel).properties) :
          WorkerApply(o, Tail(channel), "recv", [h EXCEPT !.handled = @ + 1], "OPTION_CHANGE")

\* mutation of connect_complete: is_connecting is raised, not cleared
connect_complete_still_connecting(s) ==
    [s EXCEPT !.is_connecting = TRUE, !.is_connected = TRUE]

\* the two flag assignments of the CONNECT_COMPLETE arm
connect_complete(s) ==
    [s EXCEPT !.is_connecting = FALSE, !.is_connected = TRUE]

HandleConnectComplete ==
    /\ Receives("CONNECT_COMPLETE")
    /\ LET s1 == connect_complete(state)
       IN  \E o \in process_log_queue(s1, Now) :
              WorkerApply(o, Tail(channel), "recv", [h EXCEPT !.handled = @ + 1], "CONNECT_COMPLETE")

HandleTryConnect ==
    /\ Receives("TRY_CONNECT")
    /\ LET s1 == [state EXCEPT !.is_reconnection_scheduled = FALSE]
           h0 == [h EXCEPT !.handled = @ + 1]
       IN  IF /\ ~sink_present(s1)
              /\ ~s1.is_connecting
              /\ s1.remote_host # None
              /\ s1.remote_port # None
           THEN \E o \in connect_to_remote(s1) : WorkerApply(o, Tail(channel), "recv", h0, "TRY_CONNECT")
           ELSE WorkerApply(Outcome(s1), Tail(channel), "recv", h0, "TRY_CONNECT")

\* QUIT breaks the loop; run() returns and the thread ends
HandleQuit ==
    /\ Receives("QUIT")
    /\ wpc' = "done"
    /\ channel' = <<>>
    /\ h' = [h EXCEPT !.handled = @ + 1]
    /\ UNCHANGED <<state, poisoned, message_receiver, worker_thread_channel_rx, log_message, net,
                   ppc, waiting, sink>>

\* ---------------------------------------------------------- specification
Producer(p) ==
    \/ LogAEnter(p)
    \/ StartThread(p)
    \/ WaitCheck(p)
    \/ Park(p)
    \/ CheckRunning(p)
    \/ CreateAndSend(p)

Facade ==
    \/ \E p \in Producers, host \in Hosts, port \in Ports, ssl \in BOOLEAN :
          set_remote_host(p, host, port, ssl)
    \/ \E host \in Hosts, port \in Ports, ssl \in BOOLEAN :
          apply_option_change(host, port, ssl)
    \/ shutdown

Worker ==
    \/ WorkerInit
    \/ WorkerSetReady
    \/ WorkerUnpark
    \/ WorkerRunLoop
    \/ HandleAddLog
    \/ HandleOptionChange
    \/ HandleConnectComplete
    \/ HandleTryConnect
    \/ HandleQuit

Next == (\E p \in Producers : Producer(p)) \/ Facade \/ Worker

Spec == Init /\ [][Next]_vars

\* ------------------------------------------- the sequence counter alone
\* The allocations of sequence numbers, followed from a counter value that a
\* long-running process has reached: log_a's allocation by any producer and
\* the worker's allocation for the client-info message.
StartValues == {u32(0), <<0, U16 - 1>>, <<U16 - 1, U16 - 2>>}

InitSeq ==
    /\ \E k \in StartValues :
          /\ state = [InitState EXCEPT !.next_sequence_numbers = k]
          /\ h = [InitHistory EXCEPT !.start = k]
    /\ poisoned = FALSE
    /\ message_receiver = Some("rx")
    /\ worker_thread_channel_rx = None
    /\ channel = <<>>
    /\ wpc = "unspawned"
    /\ ppc = [p \in Producers |-> "idle"]
    /\ waiting = [p \in Producers |-> FALSE]
    /\ sink = <<>>
    /\ log_message = None
    /\ net = InitNet

SeqLog(p) ==
    /\ Len(h.allocated) < MaxAlloc
    /\ \E text \in Texts :
          LET a == new_log_message(state, Level_Info, text, Now)
          IN  /\ state' = a.state
              /\ channel' = Send(channel, <<[type |-> "ADD_LOG", message |-> a.message]>>)
              /\ h' = [h EXCEPT !.allocated = Append(@, a.value),
                                !.allocators = Append(@, p)]
    /\ UNCHANGED <<poisoned, message_receiver, worker_thread_channel_rx, log_message, net,
                   wpc, ppc,
                   waiting, sink>>

SeqClientInfo ==
    /\ Len(h.allocated) < MaxAlloc
    /\ ~state.is_client_info_added
    /\ LET o == push_client_info_to_front_of_queue(state, Now)
       IN  /\ state' = o.state
           /\ h' = [h EXCEPT !.allocated = @ \o o.alloc,
                             !.allocators = Append(@, "worker"),
                             !.info = @ \o o.info]
    /\ UNCHANGED <<poisoned, message_receiver, worker_thread_channel_rx, log_message, net,
                   channel,
                   wpc, ppc, waiting, sink>>

NextSeq == (\E p \in Producers : SeqLog(p)) \/ SeqClientInfo

SpecSeq == InitSeq /\ [][NextSeq]_vars


\* ------------------------------------------------- the message codec alone
\* One LogMessage from LogMessage::new through a sequence of add_int16,
\* add_int32, add_int64 and add_string calls.
MessageTypes == {LOG, CLIENT_INFO}

SequenceNumbers == {u32(7), <<U16 - 1, U16 - 1>>}

Int16Parts == {<<LEVEL, 0>>, <<LEVEL, U16 - 1>>}

Int32Parts == {<<LINENUMBER, u32(258)>>}

Int64Parts == {<<TIMESTAMP_S, 70000>>}

\* the empty string, "hi", and a string whose bytes read like a part header
StringParts == {<<MESSAGE, <<>>>>, <<MESSAGE, <<104, 105>>>>, <<TAG, <<7, 2, 0, 1>>>>}

\* the bytes the claim counts for one part: key and type, then the width of
\* a fixed-width value, or a 4-byte length and the payload
PartSize(part) ==
    2 + (CASE part[2] = INT16 -> 2
           [] part[2] = INT32 -> 4
           [] part[2] = INT64 -> 8
           [] OTHER -> 4 + Len(part[3]))

\* the parts LogMessage::new adds, in its order
ConstructionParts(message_type, sequence_number, now) ==
    << <<MESSAGE_TYPE, INT32, u32(message_type)>>,
       <<MESSAGE_SEQ, INT32, sequence_number>>,
       <<TIMESTAMP_S, INT64, now \div 1000>>,
       <<TIMESTAMP_MS, INT16, now % 1000>>,
       <<THREAD_ID, STRING_T, ThreadIdText>> >>

RECURSIVE SumSizes(_)
SumSizes(parts) == IF parts = <<>> THEN 0 ELSE PartSize(Head(parts)) + SumSizes(Tail(parts))

\* the number of parts added to the message so far, and the bytes the claim
\* counts for them
PartsAdded == h.base_count + Len(h.parts)

PartBytes == h.base_bytes + SumSizes(h.parts)

InitCodec ==
    /\ state = InitState
    /\ poisoned = FALSE
    /\ message_receiver = Some("rx")
    /\ worker_thread_channel_rx = None
    /\ channel = <<>>
    /\ wpc = "unspawned"
    /\ ppc = [p \in Producers |-> "idle"]
    /\ waiting = [p \in Producers |-> FALSE]
    /\ sink = <<>>
    /\ log_message = None
    /\ net = InitNet
    /\ h = InitHistory

CodecUnchanged ==
    UNCHANGED <<state, poisoned, message_receiver, worker_thread_channel_rx,
                channel, wpc, ppc, waiting, sink, net>>

\* LogMessage::new
CodecNew ==
    /\ log_message = None
    /\ h.construction = <<>>
    /\ \E message_type \in MessageTypes, sequence_number \in SequenceNumbers :
          LET parts == ConstructionParts(message_type, sequence_number, ClockBase)
          IN  /\ log_message' = Some(NewLogMessage(message_type, sequence_number, ClockBase))
              /\ h' = [h EXCEPT !.construction = parts,
                                !.base_count = Len(parts),
                                !.base_bytes = SumSizes(parts)]
    /\ CodecUnchanged

\* One add_* call on the message: added is the message after the call, as the
\* operator computes it with `part_count += 1` wrapping (a build without
\* overflow checks). A build with overflow checks panics on that statement
\* when part_count is 65535, and the message is dropped with its owner.
\* Calls are followed up to the first part a u16 cannot count.
CodecAdd(added, part) ==
    /\ log_message # None
    /\ Len(h.parts) < MaxParts
    /\ PartsAdded < U16
    /\ \/ /\ log_message' = Some(added)
          /\ h' = [h EXCEPT !.parts = Append(@, part)]
       \/ /\ unwrap(log_message).part_count = U16 - 1
          /\ log_message' = None
          /\ h' = [h EXCEPT !.parts = Append(@, part),
                            !.fault = Some("add_overflow")]
    /\ CodecUnchanged

CodecAddInt16 ==
    \E p \in Int16Parts :
        CodecAdd(add_int16(unwrap(log_message), p[1], p[2]), <<p[1], INT16, p[2]>>)

CodecAddInt32 ==
    \E p \in Int32Parts :
        CodecAdd(add_int32(unwrap(log_message), p[1], p[2]), <<p[1], INT32, p[2]>>)

CodecAddInt64 ==
    \E p \in Int64Parts :
        CodecAdd(add_int64(unwrap(log_message), p[1], p[2]), <<p[1], INT64, p[2]>>)

CodecAddString ==
    \E p \in StringParts :
        CodecAdd(add_string(unwrap(log_message), p[1], p[2]), <<p[1], STRING_T, p[2]>>)

NextCodec ==
    \/ CodecNew
    \/ CodecAddInt16
    \/ CodecAddInt32
    \/ CodecAddInt64
    \/ CodecAddString

SpecCodec == InitCodec /\ [][NextCodec]_vars

\* The same calls, followed also from a message that already has many parts:
\* a message built by LogMessage::new to which add_int16(LEVEL, 0) has been
\* applied WideCalls times. WideMessage is the closed form of those calls
\* (each appends <<LEVEL, INT16, 0, 0>>, adds 4 to data_used and 1 to
\* part_count), two parts short of what a u16 part_count can hold.
WideCalls == U16 - 7

WideMessage ==
    LET m == NewLogMessage(LOG, u32(7), ClockBase)
        part == <<LEVEL, INT16>> \o BE2(0)
    IN  [m EXCEPT !.data_used = @ + 4 * WideCalls,
                  !.data = @ \o [i \in 1..(4 * WideCalls) |-> part[((i - 1) % 4) + 1]],
                  !.part_count = (@ + WideCalls) % U16]

InitCodecWide ==
    /\ state = InitState
    /\ poisoned = FALSE
    /\ message_receiver = Some("rx")
    /\ worker_thread_channel_rx = None
    /\ channel = <<>>
    /\ wpc = "unspawned"
    /\ ppc = [p \in Producers |-> "idle"]
    /\ waiting = [p \in Producers |-> FALSE]
    /\ sink = <<>>
    /\ net = InitNet
    /\ \/ /\ log_message = None
          /\ h = InitHistory
       \/ LET parts == ConstructionParts(LOG, u32(7), ClockBase)
          IN  /\ log_message = Some(WideMessage)
              /\ h = [InitHistory EXCEPT
                        !.construction = parts,
                        !.base_count = Len(parts) + WideCalls,
                        !.base_bytes = SumSizes(parts)
                                       + WideCalls * PartSize(<<LEVEL, INT16, 0>>)]

SpecCodecWide == InitCodecWide /\ [][NextCodec]_vars


\* ------------------------------------------------- the NetworkManager alone
\* NetworkManager::run serving SetupBonjour actions, with the discovery
\* service as its environment: the browse and the resolve are answered, or
\* not, by the network.
ServiceTypes == {"_nslogger._tcp", "_nslogger-ssl._tcp"}

ServiceNames == {"viewer"}

\* socket addresses a resolved host_target:port can stand for
PrivateV4 == [ip |-> "192.168.1.5", is_global |-> FALSE, is_ipv4 |-> TRUE]

PublicV4 == [ip |-> "8.8.8.8", is_global |-> TRUE, is_ipv4 |-> TRUE]

LinkLocalV6 == [ip |-> "fe80::1", is_global |-> FALSE, is_ipv4 |-> FALSE]

\* what to_socket_addrs() returns: Err (None here) or the addresses in order
AddressLists ==
    {None, Some(<<PrivateV4>>), Some(<<PublicV4, PrivateV4>>), Some(<<PublicV4>>),
     Some(<<LinkLocalV6>>)}

\* BonjourServiceStatus
ServiceFound(name, host, port) ==
    [kind |-> "ServiceFound", name |-> name, host |-> host, port |-> port]

TimedOut == [kind |-> "TimedOut"]

Unresolved == [kind |-> "Unresolved"]

\* HandlerMessageType::TryConnectBonjour
TryConnectBonjour(name, host, port) ==
    [type |-> "TryConnectBonjour", name |-> name, host |-> host, port |-> port]

InitDiscovery ==
    /\ state = InitState
    /\ poisoned = FALSE
    /\ message_receiver = Some("rx")
    /\ worker_thread_channel_rx = None
    /\ channel = <<>>
    /\ wpc = "unspawned"
    /\ ppc = [p \in Producers |-> "idle"]
    /\ waiting = [p \in Producers |-> FALSE]
    /\ sink = <<>>
    /\ log_message = None
    /\ net = [InitNet EXCEPT !.pc = "recv"]
    /\ h = InitHistory

NmUnchanged ==
    UNCHANGED <<state, poisoned, message_receiver, worker_thread_channel_rx,
                channel, wpc, ppc, waiting, sink, log_message, h>>

\* the owner of the manager asks for a discovery: SetupBonjour(service type)
request_discovery(service_type) ==
    /\ net.senders
    /\ net.received + Len(net.action_receiver) < MaxDiscoveries
    /\ net' = [net EXCEPT !.action_receiver =
                   IF net.pc \in {"stopped", "panicked"}
                   THEN @ ELSE Append(@, [type |-> "SetupBonjour",
                                          service_name |-> service_type])]
    /\ NmUnchanged

\* the owner drops its Sender: recv() returns Err once the channel is empty
drop_action_sender ==
    /\ net.senders
    /\ net' = [net EXCEPT !.senders = FALSE]
    /\ NmUnchanged

\* run(): `match self.action_receiver.recv()`
NmRecv ==
    /\ net.pc = "recv"
    /\ IF net.action_receiver # <<>>
       THEN net' = [net EXCEPT !.action_receiver = Tail(@),
                               !.received = @ + 1,
                               !.service_name = Some(Head(net.action_receiver).service_name),
                               !.is_connected = FALSE,
                               !.current_delay = None,
                               !.pc = "while"]
       ELSE /\ ~net.senders
            /\ net' = [net EXCEPT !.pc = "stopped"]
    /\ NmUnchanged

\* run(): `while !is_connected`, and the entry of setup_bonjour: the browse
\* is started and core.run waits for its first result or for the 5 s Timeout
\* (delay_future is built and dropped: the and_then is Result's)
NmWhile ==
    /\ net.pc = "while"
    /\ \E browse_started \in BOOLEAN :
          net' = IF net.is_connected
                 THEN [net EXCEPT !.pc = "recv"]
                 ELSE IF browse_started
                 THEN [net EXCEPT !.pc = "browse",
                                  !.delay_ms = net.current_delay,
                                  !.timeout = TRUE,
                                  !.browse_result = None,
                                  !.resolve_details = None,
                                  !.status = None]
                 \* async_dnssd::browse(..).unwrap()
                 ELSE [net EXCEPT !.pc = "panicked",
                                  !.delay_ms = net.current_delay,
                                  !.browse_result = None,
                                  !.resolve_details = None,
                                  !.status = None,
                                  !.fault = Some("browse_unwrap")]
    /\ NmUnchanged

\* the Timeout a core.run waits on fires: Either::B
NmTimeout ==
    /\ net.pc \in {"browse", "resolve"}
    /\ net.timeout
    /\ net' = [net EXCEPT !.pc = "status", !.timeout = FALSE, !.status = Some(TimedOut)]
    /\ NmUnchanged

\* the browse is answered: core.run returns Err, or the stream ends (None),
\* or it yields its first result
BrowseAnswers ==
    {[kind |-> "Err"], [kind |-> "None"]}
    \cup {[kind |-> "Some", service_name |-> n, resolve_started |-> r]
            : n \in ServiceNames, r \in BOOLEAN}

NmBrowseAnswer ==
    /\ net.pc = "browse"
    /\ \E a \in BrowseAnswers :
          net' = CASE a.kind = "Err" ->
                        [net EXCEPT !.pc = "status", !.timeout = FALSE,
                                    !.status = Some(Unresolved)]
                   [] a.kind = "None" ->
                        \* result.unwrap()
                        [net EXCEPT !.pc = "panicked", !.timeout = FALSE,
                                    !.fault = Some("browse_result_unwrap")]
                   [] ~a.resolve_started ->
                        \* browse_result.resolve(..).unwrap()
                        [net EXCEPT !.pc = "panicked", !.timeout = FALSE,
                                    !.browse_result = Some(a),
                                    !.fault = Some("resolve_unwrap")]
                   [] OTHER ->
                        \* the resolve is started and core.run waits for it alone
                        [net EXCEPT !.pc = "resolve", !.timeout = FALSE,
                                    !.browse_result = Some(a)]
    /\ NmUnchanged

\* mutation of first_local_ipv4: the first address is taken, whatever it is
first_address(addrs) ==
    IF addrs = <<>> THEN None ELSE Some(addrs[1])

\* the for loop over the socket addresses: the first that is not global and
\* is IPv4
first_local_ipv4(addrs) ==
    LET ok == {i \in 1..Len(addrs) : ~addrs[i].is_global /\ addrs[i].is_ipv4}
    IN  IF ok = {} THEN None ELSE Some(addrs[CHOOSE i \in ok : \A j \in ok : i <= j])

\* the resolve is answered: core.run returns Err, or the stream ends (None),
\* or it yields the details of the service
ResolveAnswers ==
    {[kind |-> "Err"], [kind |-> "None"]}
    \cup {[kind |-> "Some", port |-> port, addrs |-> addrs]
            : port \in Ports, addrs \in AddressLists}

NmResolveAnswer ==
    /\ net.pc = "resolve"
    /\ \E a \in ResolveAnswers :
          net' = CASE a.kind = "Err" ->
                        [net EXCEPT !.pc = "status", !.status = Some(Unresolved)]
                   [] a.kind = "None" ->
                        \* resolve_result.unwrap()
                        [net EXCEPT !.pc = "panicked",
                                    !.fault = Some("resolve_result_unwrap")]
                   [] a.addrs = None ->
                        \* to_socket_addrs().unwrap()
                        [net EXCEPT !.pc = "panicked", !.resolve_details = Some(a),
                                    !.fault = Some("to_socket_addrs_unwrap")]
                   [] first_local_ipv4(unwrap(a.addrs)) = None ->
                        \* remote_host.unwrap()
                        [net EXCEPT !.pc = "panicked", !.resolve_details = Some(a),
                                    !.fault = Some("remote_host_unwrap")]
                   [] OTHER ->
                        [net EXCEPT !.pc = "status", !.resolve_details = Some(a),
                                    !.status = Some(ServiceFound(
                                        unwrap(net.browse_result).service_name,
                                        unwrap(first_local_ipv4(unwrap(a.addrs))).ip,
                                        a.port))]
    /\ NmUnchanged

\* mutation of on_status: is_connected is not set after the send
on_status_keeps_looking(n) ==
    LET status == unwrap(n.status)
    IN  IF status.kind = "ServiceFound"
        THEN [n EXCEPT !.sent = Append(@, TryConnectBonjour(status.name, status.host,
                                                            status.port)),
                       !.pc = "while"]
        ELSE [n EXCEPT !.current_delay = Some(10000), !.pc = "while"]

\* run(): the match on what setup_bonjour returned
on_status(n) ==
    LET status == unwrap(n.status)
    IN  IF status.kind = "ServiceFound"
        THEN [n EXCEPT !.sent = Append(@, TryConnectBonjour(status.name, status.host,
                                                            status.port)),
                       !.is_connected = TRUE,
                       !.pc = "while"]
        ELSE [n EXCEPT !.current_delay = Some(10000), !.pc = "while"]

NmStatus ==
    /\ net.pc = "status"
    /\ net' = on_status(net)
    /\ NmUnchanged

NextDiscovery ==
    \/ \E service_type \in ServiceTypes : request_discovery(service_type)
    \/ drop_action_sender
    \/ NmRecv
    \/ NmWhile
    \/ NmTimeout
    \/ NmBrowseAnswer
    \/ NmResolveAnswer
    \/ NmStatus

SpecDiscovery == InitDiscovery /\ [][NextDiscovery]_vars


\* ------------------------------------------------ process_log_queue alone
\* process_log_queue called on a LoggerState in each of the configurations a
\* Logger can be in when messages are queued, with the worker in its loop.
\* The buffer stream is the File variant of WriteStreamWrapper, which
\* MessageWorker::run creates when log_file_path is set.
BufferStream == Some([kind |-> "File", peer |-> [host |-> "file", port |-> 0]])

DrainConfigurations ==
    {[remote_host |-> host, remote_port |-> port, write_stream |-> stream,
      is_connected |-> connected]
       : host \in {None} \cup {Some(x) : x \in Hosts},
         port \in {None} \cup {Some(x) : x \in Ports},
         stream \in {None, BufferStream}
                    \cup {Some([kind |-> "Tcp", peer |-> [host |-> x, port |-> y]])
                            : x \in Hosts, y \in Ports},
         connected \in BOOLEAN}

\* the configurations the code reaches: a TCP stream and is_connected need an
\* endpoint, is_connected needs the TCP stream, and the buffer stream is
\* created only when there is no connection to make
DrainReachable(c) ==
    /\ (c.remote_host = None) = (c.remote_port = None)
    /\ c.is_connected => (c.write_stream # None /\ unwrap(c.write_stream).kind = "Tcp")
    /\ (c.write_stream # None /\ unwrap(c.write_stream).kind = "Tcp") =>
          c.remote_host # None
    /\ c.write_stream = BufferStream => c.remote_host = None

InitDrain ==
    /\ \E c \in DrainConfigurations :
          /\ DrainReachable(c)
          /\ state = [InitState EXCEPT !.ready = TRUE,
                                       !.is_handler_running = TRUE,
                                       !.remote_host = c.remote_host,
                                       !.remote_port = c.remote_port,
                                       !.write_stream = c.write_stream,
                                       !.is_connected = c.is_connected]
    /\ poisoned = FALSE
    /\ message_receiver = None
    /\ worker_thread_channel_rx = None
    /\ channel = <<>>
    /\ wpc = "recv"
    /\ ppc = [p \in Producers |-> "idle"]
    /\ waiting = [p \in Producers |-> FALSE]
    /\ sink = <<>>
    /\ log_message = None
    /\ net = InitNet
    /\ h = [InitHistory EXCEPT !.spawned = 1]

\* a message is built as log_a builds it and pushed as the ADD_LOG arm
\* pushes it
DrainPush ==
    /\ wpc = "recv"
    /\ Len(h.added) < MaxLogs
    /\ \E text \in Texts :
          LET a == new_log_message(state, Level_Info, text, Now)
          IN  /\ state' = [a.state EXCEPT !.log_messages = push(@, a.message)]
              /\ h' = [h EXCEPT !.added = Append(@, a.message),
                                !.allocated = Append(@, a.value),
                                !.allocators = Append(@, "p1")]
    /\ UNCHANGED <<poisoned, message_receiver, worker_thread_channel_rx, channel,
                   wpc, ppc, waiting, sink, log_message, net>>

\* process_log_queue is called under the lock
DrainProcess ==
    /\ wpc = "recv"
    /\ \E o \in process_log_queue(state, Now) :
          WorkerApply(o, channel, "recv",
                      [h EXCEPT !.drain =
                          Some([queue |-> state.log_messages,
                                host |-> state.remote_host,
                                is_connected |-> state.is_connected,
                                stream |-> state.write_stream,
                                after |-> o.state.log_messages,
                                written |-> o.written,
                                wrote |-> o.wrote,
                                info |-> o.info,
                                fault |-> o.fault])],
                      "process_log_queue")

\* the flag assignments of the CONNECT_COMPLETE arm, for a LoggerState whose
\* connect_to_remote has installed a stream
DrainConnectComplete ==
    /\ wpc = "recv"
    /\ state.write_stream # None
    /\ unwrap(state.write_stream).kind = "Tcp"
    /\ ~state.is_connected
    /\ state' = connect_complete(state)
    /\ UNCHANGED <<poisoned, message_receiver, worker_thread_channel_rx, channel,
                   wpc, ppc, waiting, sink, log_message, net, h>>

NextDrain == DrainPush \/ DrainConnectComplete \/ DrainProcess

SpecDrain == InitDrain /\ [][NextDrain]_vars


\* --------------------------------------------- a logger at the counter's end
\* A Logger that has run connected for so long that next_sequence_numbers is
\* at the last value of the u32: the worker sits in its loop, the client-info
\* message was written long ago and the queue is empty. log_a is called and
\* the worker handles the ADD_LOG commands; what is recorded starts here.
LastSequenceNumber == <<U16 - 1, U16 - 1>>

InitLongRun ==
    /\ \E host \in Hosts, port \in Ports, kind \in {"Tcp", "Ssl"} :
          state = [InitState EXCEPT !.ready = TRUE,
                                    !.is_handler_running = TRUE,
                                    !.is_client_info_added = TRUE,
                                    !.remote_host = Some(host),
                                    !.remote_port = Some(port),
                                    !.write_stream =
                                        Some([kind |-> kind,
                                              peer |-> [host |-> host, port |-> port]]),
                                    !.is_connected = TRUE,
                                    !.next_sequence_numbers = LastSequenceNumber]
    /\ poisoned = FALSE
    /\ message_receiver = None
    /\ worker_thread_channel_rx = None
    /\ channel = <<>>
    /\ wpc = "recv"
    /\ ppc = [p \in Producers |-> "idle"]
    /\ waiting = [p \in Producers |-> FALSE]
    /\ sink = <<>>
    /\ log_message = None
    /\ net = InitNet
    /\ h = [InitHistory EXCEPT !.spawned = 1, !.start = LastSequenceNumber]

NextLongRun ==
    \/ \E p \in Producers : LogAEnter(p)
    \/ \E p \in Producers : StartThread(p)
    \/ \E p \in Producers : WaitCheck(p)
    \/ \E p \in Producers : CheckRunning(p)
    \/ \E p \in Producers : CreateAndSend(p)
    \/ HandleAddLog

SpecLongRun == InitLongRun /\ [][NextLongRun]_vars


\* ----------------------------------------------------------------- claims
IsPrefix(a, b) == Len(a) <= Len(b) /\ SubSeq(b, 1, Len(a)) = a

\* the worker is blocked in recv(), between two commands
WorkerIdle == wpc = "recv"

\* C1: the bytes on the sink are the encodings of the messages in the order
\* their ADD_LOG commands were processed, preceded once by the client-info
\* message: nothing is written twice, skipped or reordered, and once a
\* command has been handled while connected everything processed is there.
C1_FifoStream ==
    LET expected == h.info \o h.added
    IN  /\ Len(h.info) <= 1
        /\ IsPrefix(h.written, expected)
        /\ IsPrefix(Flatten(h.written), sink)
        /\ IsPrefix(sink, Flatten(expected))
        /\ (WorkerIdle /\ state.is_connected) => sink = Flatten(expected)

\* C1 witness: two messages logged on a connected logger have been written,
\* by two drains, behind the client-info message
C1_Witness ==
    /\ WorkerIdle
    /\ state.is_connected
    /\ h.trigger = Some("ADD_LOG")
    /\ Len(h.added) = 2
    /\ Len(h.written) = 3
    /\ h.handled >= 3
    /\ sink = Flatten(h.info \o h.added)

\* C2: every log_a call that returned has put exactly one ADD_LOG command on
\* the channel
C2_EveryLogSent == h.sent_logs = h.returned

\* C3: nothing reaches a sink before the client-info message: the first
\* message written, and the first bytes on the sink, are the client-info's
C3_ClientInfoFirst ==
    /\ h.written # <<>> =>
          /\ h.info # <<>>
          /\ h.written[1] = h.info[1]
          /\ SubSeq(h.written[1].data, 1, 6) = <<MESSAGE_TYPE, INT32>> \o BE4(u32(CLIENT_INFO))
    /\ sink # <<>> =>
          /\ h.info # <<>>
          /\ \/ IsPrefix(sink, get_bytes(h.info[1]))
             \/ IsPrefix(get_bytes(h.info[1]), sink)

\* C3 witness: the first drain was triggered by ADD_LOG on a connected
\* logger and wrote the client-info message and then the log message
C3_Witness ==
    /\ h.trigger = Some("ADD_LOG")
    /\ Len(h.written) = 2
    /\ h.written[1] = h.info[1]
    /\ h.written[2] = h.added[1]

\* C4: at most one sink object is open, and a connect_to_remote invoked
\* while a sink is present returns Err, opens nothing, leaves the sink as it
\* was and sends no CONNECT_COMPLETE
C4_AtMostOneSink ==
    /\ h.opened - h.closed <= 1
    /\ h.opened - h.closed = (IF state.write_stream # None THEN 1 ELSE 0)
    /\ h.connect # None =>
          LET c == unwrap(h.connect)
          IN  c.had_sink =>
                 /\ c.result = "Err"
                 /\ c.opened = 0
                 /\ c.sent = 0
                 /\ c.after = c.before

\* C4 witness: OPTION_CHANGE reached connect_to_remote with a sink open
C4_Witness ==
    /\ h.connect # None
    /\ unwrap(h.connect).had_sink
    /\ state.write_stream # None
    /\ h.opened = 1

C6_ReadyBeforeReturn ==
    /\ \A p \in Producers : ppc[p] \in {"check_running", "create"} => state.ready
    /\ h.returned > 0 => state.ready
    /\ h.sent_logs > 0 => state.ready

\* C6 witness: a producer that had to park has left the wait loop
C6_Witness ==
    \E p \in Producers : ppc[p] = "create" /\ waiting[p] /\ state.ready


\* k + i as a plain sum, the high half left free to pass 2^16
AddPlain(k, i) == <<k[1] + (k[2] + i) \div U16, (k[2] + i) % U16>>

\* k + i modulo 2^32
AddMod32(k, i) == <<(k[1] + (k[2] + i) \div U16) % U16, (k[2] + i) % U16>>

NoRepeats(q) == \A i, j \in 1..Len(q) : q[i] = q[j] => i = j

\* C7 as stated: N allocations from counter value k return exactly
\* k, k+1, ..., k+N-1, none twice
C7_SequentialNoWrap ==
    /\ \A i \in 1..Len(h.allocated) : h.allocated[i] = AddPlain(h.start, i - 1)
    /\ NoRepeats(h.allocated)

\* C7 as amended: N allocations from counter value k return exactly
\* k, k+1, ..., k+N-1 modulo 2^32, none twice (for N up to 2^32), and leave
\* the counter at k+N modulo 2^32
C7_SequentialMod32 ==
    /\ \A i \in 1..Len(h.allocated) : h.allocated[i] = AddMod32(h.start, i - 1)
    /\ NoRepeats(h.allocated)
    /\ state.next_sequence_numbers = AddMod32(h.start, Len(h.allocated))
    /\ \A m \in {state.log_messages[i] : i \in 1..Len(state.log_messages)}
               \cup {channel[i].message :
                        i \in {j \in 1..Len(channel) : channel[j].type = "ADD_LOG"}} :
          \E i \in 1..Len(h.allocated) : m.sequence_number = h.allocated[i]

\* C7 witness: two producers and the client-info insertion have allocated
\* across the wrap of the 32-bit counter
C7_Witness ==
    /\ h.start = <<U16 - 1, U16 - 2>>
    /\ Len(h.allocated) = MaxAlloc
    /\ {h.allocators[i] : i \in 1..Len(h.allocators)} = Producers \cup {"worker"}
    /\ h.allocated[3] = u32(0)

\* C8: a write failure during a drain leaves the worker running, with the
\* sink closed, the message still at the queue head and a reconnection
\* scheduled
C8_WriteFailureRecovered ==
    h.fault = Some("write_failed") =>
        /\ wpc # "panicked"
        /\ state.write_stream = None
        /\ state.log_messages # <<>>
        /\ state.is_reconnection_scheduled

\* C9: after a connect_to_remote that failed in the TCP connect or in the
\* TLS handshake the worker is still running, no sink is open and
\* is_connected is false
C9_ConnectFailureSurvived ==
    h.connect # None =>
        LET c == unwrap(h.connect)
        IN  (~c.had_sink /\ c.host # None /\ c.port # None /\ c.result # "Ok") =>
               /\ wpc # "panicked"
               /\ state.write_stream = None
               /\ ~state.is_connected

\* C10: connect_to_remote performs the TLS handshake, and installs an
\* encrypted sink, exactly when USE_SSL is set
C10_TlsIffUseSsl ==
    h.connect # None =>
        LET c == unwrap(h.connect)
        IN  c.opened = 1 =>
               /\ c.handshake <=> c.use_ssl
               /\ c.result = "Ok" => ((unwrap(c.after).kind = "Ssl") <=> c.use_ssl)

\* C11: every TCP connection connect_to_remote opens goes to the
\* remote_host:remote_port the LoggerState holds when it is invoked, and to
\* no other address
C11_ConnectsToConfigured ==
    h.connect # None =>
        LET c == unwrap(h.connect)
        IN  (c.target # None /\ c.host # None /\ c.port # None) =>
               unwrap(c.target) = [host |-> unwrap(c.host), port |-> unwrap(c.port)]

\* C12: once the worker thread has been started, a call on the Logger that
\* sets the endpoint or the TLS option (set_remote_host, the only calls that
\* advance h.facade) leaves remote_host, remote_port and options of the
\* shared LoggerState as they are: the change travels as OPTION_CHANGE
C12_OptionChangeOnly ==
    [][ (wpc # "unspawned" /\ h'.facade # h.facade) =>
            /\ state'.remote_host = state.remote_host
            /\ state'.remote_port = state.remote_port
            /\ state'.options = state.options ]_vars

\* the endpoint or the TLS setting an OPTION_CHANGE carries is not the one
\* the LoggerState holds
Differs(properties, s) ==
    \/ s.remote_host # Some(properties.remote_host)
    \/ s.remote_port # Some(properties.remote_port)
    \/ (USE_SSL \in s.options) # properties.use_ssl

\* C13: the step in which the worker handles an OPTION_CHANGE that carries a
\* different host, port or TLS setting leaves the new endpoint and option in
\* the LoggerState, closes the sink that was open, and makes a connection
\* attempt, without a sink in the way, against the new endpoint
C13_OptionChangeApplied ==
    [][ (Receives("OPTION_CHANGE") /\ h'.handled # h.handled
            /\ Differs(Head(channel).properties, state)) =>
            LET properties == Head(channel).properties
            IN  /\ state'.remote_host = Some(properties.remote_host)
                /\ state'.remote_port = Some(properties.remote_port)
                /\ (USE_SSL \in state'.options) = properties.use_ssl
                /\ state.write_stream # None => h'.closed > h.closed
                /\ h'.connect # None
                /\ ~unwrap(h'.connect).had_sink
                /\ unwrap(h'.connect).host = Some(properties.remote_host)
                /\ unwrap(h'.connect).port = Some(properties.remote_port) ]_vars

\* C14: the step that handles QUIT ends the command loop, and at that step
\* every earlier command has been handled to the end (a connected worker has
\* drained its queue); once the loop has ended no command is handled; and
\* the loop, waiting in recv(), is ended by no command but QUIT
C14_QuitEndsLoop ==
    [][ /\ (Receives("QUIT") /\ h'.handled # h.handled) =>
               /\ wpc' = "done"
               /\ state.is_connected => state.log_messages = <<>>
        /\ wpc \in {"done", "panicked"} => h'.handled = h.handled
        /\ (wpc = "recv" /\ wpc' # "recv") => Receives("QUIT") ]_vars

\* C15: is_connecting and is_connected are never both true
C15_ConnectingXorConnected == ~(state.is_connecting /\ state.is_connected)

\* C15 witness: CONNECT_COMPLETE has been handled after a successful
\* connect_to_remote, and a further command after it
C15_Witness ==
    /\ state.is_connected
    /\ ~state.is_connecting
    /\ h.connect # None
    /\ unwrap(h.connect).result = "Ok"
    /\ h.handled >= 2
    /\ WorkerIdle

\* ---- a reader of the wire format: u32 length | u16 part_count | part*,
\* part = u8 key | u8 type | payload
Take(b, n) == SubSeq(b, 1, n)

Drop(b, n) == SubSeq(b, n + 1, Len(b))

FromBE2(b) == b[1] * 256 + b[2]

\* a u32 as its two 16-bit halves
FromBE4(b) == <<FromBE2(Take(b, 2)), FromBE2(Drop(b, 2))>>

\* a u64 below 2^31 as a number, any other as its bytes
FromBE8(b) ==
    IF Take(b, 4) = <<0, 0, 0, 0>> /\ b[5] < 128
    THEN FromBE2(SubSeq(b, 5, 6)) * U16 + FromBE2(SubSeq(b, 7, 8))
    ELSE b

\* the number a u32 kept as halves stands for, when it is below 2^31
Small(x) == x[1] * U16 + x[2]

RECURSIVE DecodeParts(_)
\* the parts of a message body, in stream order; what cannot be read as a
\* part ends the result with "malformed"
DecodeParts(b) ==
    IF b = <<>> THEN <<>>
    ELSE IF Len(b) < 2 THEN <<"malformed">>
    ELSE LET key == b[1]
             type == b[2]
             rest == Drop(b, 2)
             width == CASE type = INT16 -> 2
                        [] type = INT32 -> 4
                        [] type = INT64 -> 8
                        [] OTHER -> 4
         IN  IF Len(rest) < width THEN <<"malformed">>
             ELSE IF type = INT16
             THEN << <<key, type, FromBE2(Take(rest, 2))>> >> \o DecodeParts(Drop(rest, 2))
             ELSE IF type = INT32
             THEN << <<key, type, FromBE4(Take(rest, 4))>> >> \o DecodeParts(Drop(rest, 4))
             ELSE IF type = INT64
             THEN << <<key, type, FromBE8(Take(rest, 8))>> >> \o DecodeParts(Drop(rest, 8))
             ELSE LET length == FromBE4(Take(rest, 4))
                  IN  IF length[1] # 0 \/ Len(rest) < 4 + length[2]
                      THEN <<"malformed">>
                      ELSE << <<key, type, SubSeq(rest, 5, 4 + length[2])>> >>
                           \o DecodeParts(Drop(rest, 4 + length[2]))

Decode(bytes) ==
    IF Len(bytes) < 6
    THEN [length |-> <<0, 0>>, part_count |-> 0, parts |-> <<"malformed">>]
    ELSE [length |-> FromBE4(Take(bytes, 4)),
          part_count |-> FromBE2(SubSeq(bytes, 5, 6)),
          parts |-> DecodeParts(Drop(bytes, 6))]

\* the value of the MESSAGE_SEQ part of a decoded message
DecodedSequenceNumber(parts) ==
    LET at == {i \in 1..Len(parts) : parts[i] # "malformed" /\ parts[i][1] = MESSAGE_SEQ}
    IN  IF at = {} THEN None ELSE Some(parts[CHOOSE i \in at : \A j \in at : i <= j][3])

\* C17: reading get_bytes() back with the same key/type table gives the
\* parts in the order they were added, each with its key, type and value,
\* and the message's sequence number: every add_* call has put its part
\* behind the parts already there and changed none of them
C17_RoundTrip ==
    log_message # None =>
        LET message == unwrap(log_message)
            decoded == Decode(get_bytes(message))
        IN  /\ decoded.parts = h.construction \o h.parts
            /\ DecodedSequenceNumber(decoded.parts) = Some(message.sequence_number)
            /\ Drop(get_bytes(message), 6) = message.data

\* C17 witness: an integer of each of two widths and then a string whose
\* bytes read like a part header were added after construction
C17_Witness ==
    /\ log_message # None
    /\ Len(h.parts) = 3
    /\ {h.parts[i][2] : i \in 1..3} = {INT16, INT32, STRING_T}
    /\ h.parts[3] = <<TAG, STRING_T, <<7, 2, 0, 1>>>>
    /\ Decode(get_bytes(unwrap(log_message))).parts[8][3] = <<7, 2, 0, 1>>

\* get_bytes() is a 4-byte length L, a 2-byte part count and the parts; L is
\* the number of bytes behind the length field, 2 plus the sizes of the
\* parts; the count is the number of parts added; data_used and part_count
\* agree with the part bytes accumulated
LengthPrefixed ==
    LET message == unwrap(log_message)
        bytes == get_bytes(message)
    IN  /\ Len(bytes) >= 6
        /\ Small(FromBE4(Take(bytes, 4))) = Len(bytes) - 4
        /\ Small(FromBE4(Take(bytes, 4))) = 2 + PartBytes
        /\ FromBE2(SubSeq(bytes, 5, 6)) = PartsAdded
        /\ Drop(bytes, 6) = message.data
        /\ Len(message.data) = PartBytes
        /\ message.data_used = 6 + Len(message.data)
        /\ message.part_count = PartsAdded

\* C16 as stated: after construction and any sequence of add_* calls the
\* length field, the part count, data_used and part_count are as above
C16_LengthPrefix == log_message # None => LengthPrefixed

\* C16 as amended: the same, for a message of at most 65535 parts
C16_LengthPrefixU16 == (log_message # None /\ PartsAdded < U16) => LengthPrefixed

\* C16 witness: a string part was added to a message of 65534 parts, which
\* then has 65535, the most a u16 part_count holds
C16_Witness ==
    /\ log_message # None
    /\ PartsAdded = U16 - 1
    /\ h.parts = << <<MESSAGE, STRING_T, <<104, 105>>>> >>
    /\ unwrap(log_message).part_count = U16 - 1

\* C18: for each SetupBonjour action the discovery manager sends exactly one
\* TryConnectBonjour command: at most one command per step and never more
\* commands than actions taken; a command is sent only for an attempt whose
\* browse and resolve both gave a result, it is the first command of the
\* action being served and it carries the browsed service name, a resolved
\* address and the resolved port; a TimedOut or Unresolved attempt sends
\* nothing; and when the manager goes back to wait for the next action, one
\* command has been sent for each action taken.
C18_OneCommandPerAction ==
    [][ /\ Len(net'.sent) <= Len(net.sent) + 1
        /\ Len(net'.sent) <= net'.received
        /\ Len(net'.sent) > Len(net.sent) =>
              /\ net.browse_result # None
              /\ net.resolve_details # None
              /\ unwrap(net.status).kind = "ServiceFound"
              /\ Len(net.sent) = net.received - 1
              /\ LET command == net'.sent[Len(net'.sent)]
                     details == unwrap(net.resolve_details)
                 IN  /\ net'.sent = Append(net.sent, command)
                     /\ command.type = "TryConnectBonjour"
                     /\ command.name = unwrap(net.browse_result).service_name
                     /\ command.port = details.port
                     /\ \E i \in 1..Len(unwrap(details.addrs)) :
                           unwrap(details.addrs)[i].ip = command.host
        /\ (net.pc = "status" /\ unwrap(net.status).kind \in {"TimedOut", "Unresolved"}) =>
              /\ net'.sent = net.sent
              /\ ~net'.is_connected
        /\ (net'.pc = "recv" /\ net.pc # "recv") => Len(net'.sent) = net'.received
      ]_vars

\* C18 witness: two actions have been served, the second after an attempt
\* that failed, and two commands have been sent.
C18_Witness ==
    /\ net.pc = "recv"
    /\ net.received = 2
    /\ Len(net.sent) = 2
    /\ net.current_delay # None

\* C19: every invocation of setup_bonjour terminates with a status even if
\* the discovery service never answers: whenever the manager waits for the
\* browse or for the resolve, it waits on a Timeout as well.
C19_EveryWaitTimed ==
    net.pc \in {"browse", "resolve"} => net.timeout

\* C20: no discovery outcome terminates the discovery thread, and
\* ServiceFound is only ever reported with a non-global address.
C20_NoFatalOutcome ==
    /\ net.pc # "panicked"
    /\ (net.status # None /\ unwrap(net.status).kind = "ServiceFound") =>
          \E a \in {PrivateV4, PublicV4, LinkLocalV6} :
             a.ip = unwrap(net.status).host /\ ~a.is_global

\* C21: a message leaves the queue only when write_all of its whole encoding
\* has returned Ok: the messages written, followed by the queue, are at all
\* times the messages put in the queue, in their order; and when a write has
\* failed, the message it failed on is at the head of the queue (the sink
\* holds a proper part of its encoding behind the messages written) with
\* every message behind it still queued in order.
C21_RemovedAfterWritten ==
    /\ h.written \o state.log_messages = h.info \o h.added
    /\ IsPrefix(Flatten(h.written), sink)
    /\ h.fault = Some("write_failed") =>
          /\ state.log_messages # <<>>
          /\ LET part == SubSeq(sink, Len(Flatten(h.written)) + 1, Len(sink))
                 head == get_bytes(state.log_messages[1])
             IN  IsPrefix(part, head) /\ Len(part) < Len(head)
    /\ h.fault # Some("write_failed") => sink = Flatten(h.written)

\* C21 witness: the client-info message has been written, the write of the
\* first log message has failed part-way, and the second log message is
\* queued behind it.
C21_Witness ==
    /\ h.fault = Some("write_failed")
    /\ Len(h.written) = 1
    /\ Len(state.log_messages) = 2
    /\ state.log_messages = h.added
    /\ Len(sink) > Len(Flatten(h.written))

\* C22: the step that handles CONNECT_COMPLETE leaves is_connected true and
\* is_connecting false; when the handler returns, the messages that were
\* queued (behind the client-info message, if it had not been added yet)
\* have been written to the sink in queue order and the queue is empty.
C22_ConnectCompleteDrains ==
    [][ (Receives("CONNECT_COMPLETE") /\ h'.handled # h.handled) =>
            /\ state'.is_connected
            /\ ~state'.is_connecting
            /\ wpc' = "recv" =>
                  LET queued == state.log_messages
                      batch == IF queued # <<>> /\ ~state.is_client_info_added
                               THEN <<h'.info[Len(h'.info)]>> \o queued
                               ELSE queued
                  IN  /\ state'.log_messages = <<>>
                      /\ h'.written = h.written \o batch
                      /\ sink' = sink \o Flatten(batch)
                      /\ (queued # <<>> /\ ~state.is_client_info_added) =>
                            /\ Len(h'.info) = Len(h.info) + 1
                            /\ SubSeq(batch[1].data, 1, 6) =
                                  <<MESSAGE_TYPE, INT32>> \o BE4(u32(CLIENT_INFO)) ]_vars

\* C22 witness: the first write to the sink was made by the handler of
\* CONNECT_COMPLETE, which found messages queued; the handler has returned
\* and everything logged is on the sink behind the client-info message.
C22_Witness ==
    /\ WorkerIdle
    /\ state.is_connected
    /\ ~state.is_connecting
    /\ h.trigger = Some("CONNECT_COMPLETE")
    /\ Len(h.added) = 2
    /\ h.written = h.info \o h.added
    /\ sink = Flatten(h.written)
    /\ state.log_messages = <<>>
    /\ channel = <<>>
    /\ h.handled = 4

\* C23: the step that handles TRY_CONNECT leaves is_reconnection_scheduled
\* false. If a sink is open, or is_connecting is true, or the remote host or
\* port is unknown, it makes no connection attempt and changes nothing else;
\* otherwise it makes one attempt, for that host and port and with no sink
\* in the way.
C23_TryConnectGuarded ==
    [][ (Receives("TRY_CONNECT") /\ h'.handled # h.handled) =>
            LET allowed == /\ state.write_stream = None
                           /\ ~state.is_connecting
                           /\ state.remote_host # None
                           /\ state.remote_port # None
            IN  /\ ~state'.is_reconnection_scheduled
                /\ ~allowed =>
                      /\ state' = [state EXCEPT !.is_reconnection_scheduled = FALSE]
                      /\ h'.connect = h.connect
                      /\ h'.opened = h.opened
                      /\ sink' = sink
                      /\ channel' = Tail(channel)
                      /\ wpc' = "recv"
                /\ allowed =>
                      /\ h'.connect # None
                      /\ unwrap(h'.connect).target # None
                      /\ ~unwrap(h'.connect).had_sink
                      /\ unwrap(h'.connect).host = state.remote_host
                      /\ unwrap(h'.connect).port = state.remote_port
                      /\ h'.opened <= h.opened + 1 ]_vars

\* C23 witness: on a Logger that was never given an endpoint, the discovery
\* stored one and sent TRY_CONNECT, and the handler of TRY_CONNECT has made
\* a connection attempt (no other command of such a run reaches
\* connect_to_remote).
C23_Witness ==
    /\ h.facade = 0
    /\ h.handled >= 1
    /\ h.connect # None
    /\ unwrap(h.connect).target # None
    /\ ~state.is_reconnection_scheduled

\* C24: the step that handles ADD_LOG while is_connected is false appends
\* the message at the tail of the queue and changes nothing else of the
\* LoggerState (flags, sink, sequence counter); nothing is written, and no
\* command is sent.
C24_AddLogDisconnected ==
    [][ (Receives("ADD_LOG") /\ h'.handled # h.handled /\ ~state.is_connected) =>
            /\ state' = [state EXCEPT !.log_messages = Append(@, Head(channel).message)]
            /\ sink' = sink
            /\ h'.written = h.written
            /\ h'.info = h.info
            /\ h'.opened = h.opened
            /\ h'.closed = h.closed
            /\ channel' = Tail(channel)
            /\ wpc' = "recv" ]_vars

\* C24 witness: two ADD_LOG commands have been handled on a Logger that is
\* not connected; both messages are queued in order and the sink is empty.
C24_Witness ==
    /\ WorkerIdle
    /\ ~state.is_connected
    /\ Len(h.added) = 2
    /\ state.log_messages = h.added
    /\ ~state.is_client_info_added
    /\ sink = <<>>

\* the CONNECT_COMPLETE commands among cmds
ConnectCompletes(cmds) ==
    Cardinality({i \in 1..Len(cmds) : cmds[i].type = "CONNECT_COMPLETE"})

\* C25: a step in which connect_to_remote returned Ok puts exactly one
\* CONNECT_COMPLETE on the channel, behind what was there; a step in which it
\* returned Err puts none; and after an Err from a failed TCP connect no sink
\* is present and no field of the LoggerState has changed.
C25_ConnectCompleteOnOk ==
    [][ (h'.connect # h.connect /\ unwrap(h'.connect).result # "panic") =>
            LET c == unwrap(h'.connect)
                rest == IF wpc = "init" THEN channel ELSE Tail(channel)
            IN  /\ c.result = "Ok" =>
                      /\ c.sent = 1
                      /\ channel' = Append(rest, [type |-> "CONNECT_COMPLETE"])
                      /\ ConnectCompletes(channel') = ConnectCompletes(channel) + 1
                /\ c.result = "Err" =>
                      /\ c.sent = 0
                      /\ channel' = rest
                      /\ ConnectCompletes(channel') = ConnectCompletes(channel)
                /\ (c.result = "Err" /\ c.target # None) =>
                      /\ state'.write_stream = None
                      /\ state' = [state EXCEPT !.is_reconnection_scheduled = FALSE]
                      /\ h'.opened = h.opened ]_vars

\* C25 witness: a connect_to_remote whose TCP connect failed has returned
\* Err: no sink, no CONNECT_COMPLETE on the channel, the worker waits for
\* its next command.
C25_Witness ==
    /\ h.connect # None
    /\ unwrap(h.connect).result = "Err"
    /\ unwrap(h.connect).target # None
    /\ state.write_stream = None
    /\ ConnectCompletes(channel) = 0
    /\ WorkerIdle

\* C26: in every reachable state, is_connected implies that a sink is
\* present. (connect_to_remote runs under one lock acquisition, a single
\* step here, so the moment between take() and the installation of the
\* encrypted stream is no state another thread can see.)
C26_ConnectedHasSink ==
    state.is_connected => state.write_stream # None

\* C26 witness: the plain stream has been replaced by the encrypted one,
\* CONNECT_COMPLETE has been handled, and a further command after it.
C26_Witness ==
    /\ state.is_connected
    /\ state.write_stream # None
    /\ unwrap(state.write_stream).kind = "Ssl"
    /\ h.connect # None
    /\ unwrap(h.connect).handshake
    /\ Len(h.written) >= 2

\* C27: whenever the worker waits for its next command and is_connected is
\* true, the queue is empty.
C27_ConnectedIdleQueueEmpty ==
    (wpc = "recv" /\ state.is_connected) => state.log_messages = <<>>

\* C27 witness: the worker is connected and waits for its next command
\* after four commands, two of them ADD_LOG; the client-info message and
\* both log messages have been written and the queue is empty.
C27_Witness ==
    /\ wpc = "recv"
    /\ state.is_connected
    /\ state.log_messages = <<>>
    /\ h.handled >= 4
    /\ Len(h.added) = 2
    /\ Len(h.info) = 1
    /\ Len(h.written) = 3

\* C28: when process_log_queue has run with a non-empty queue and no remote
\* host, it has returned, and the queued messages, the client-info message
\* first, have been written to the buffer write stream and removed from the
\* queue.
C28_BufferedWhenNoHost ==
    h.drain # None =>
        LET d == unwrap(h.drain)
        IN  (d.queue # <<>> /\ d.host = None) =>
               /\ d.fault = None
               /\ d.after = <<>>
               /\ d.written = d.info \o d.queue
               /\ d.wrote = Flatten(d.written)
               /\ d.written # <<>>
               /\ SubSeq(d.written[1].data, 1, 6) =
                     <<MESSAGE_TYPE, INT32>> \o BE4(u32(CLIENT_INFO))

\* C29: once the worker has set ready, a producer that is in the wait loop
\* of start_logging_thread_if_needed (at the ready check or parked) leaves
\* the loop only by returning from it, whatever the worker does meanwhile.
C29_WaitingProducerReturns ==
    [][ \A p \in Producers :
           (ppc[p] \in {"wait", "park"} /\ state.ready) =>
               ppc'[p] \in {"wait", "park", "check_running"} ]_vars

\* C30: the worker's initial setup comes before ready: while the worker is
\* in its setup or about to set ready, ready is false and no ADD_LOG has been
\* sent; the step in which the initial connect succeeds puts its
\* CONNECT_COMPLETE on the channel and goes on to set ready; the channel is
\* first-in first-out; so, as long as no command has been taken from the
\* channel after a successful initial connect, every ADD_LOG on the channel
\* has a CONNECT_COMPLETE in front of it.
C30_SetupBeforeReady ==
    [][ /\ wpc' \in {"init", "set_ready"} =>
              /\ ~state'.ready
              /\ h'.sent_logs = 0
              /\ \A i \in 1..Len(channel') : channel'[i].type # "ADD_LOG"
        /\ (wpc = "init" /\ h'.connect # None /\ unwrap(h'.connect).result = "Ok") =>
              /\ wpc' = "set_ready"
              /\ channel' = Append(channel, [type |-> "CONNECT_COMPLETE"])
        /\ \/ channel' = <<>>
           \/ IsPrefix(channel, channel')
           \/ channel # <<>> /\ IsPrefix(Tail(channel), channel')
        /\ (h'.handled = 0 /\ h'.connect # None /\ unwrap(h'.connect).result = "Ok"
              /\ wpc' # "panicked") =>
              \A i \in 1..Len(channel') :
                 channel'[i].type = "ADD_LOG" =>
                    \E j \in 1..(i - 1) : channel'[j].type = "CONNECT_COMPLETE"
      ]_vars

\* C30 witness: the initial connect to a configured endpoint has succeeded,
\* no command has been handled yet, and the channel holds CONNECT_COMPLETE
\* with a producer's ADD_LOG behind it.
C30_Witness ==
    /\ h.handled = 0
    /\ h.connect # None
    /\ unwrap(h.connect).result = "Ok"
    /\ Len(channel) >= 2
    /\ channel[1].type = "CONNECT_COMPLETE"
    /\ channel[Len(channel)].type = "ADD_LOG"
    /\ state.ready


\* C31: once the worker's command loop has been entered and has exited (by
\* QUIT or by a handler that unwound), the thread-start step of a log call
\* finds the startup state reset and spawns a new worker thread.
C31_RestartAfterExit ==
    [][(/\ wpc \in {"done", "panicked"}
        /\ state.is_handler_running
        /\ \E p \in Producers : ppc[p] = "start" /\ ppc'[p] # "start")
       => (wpc' = "init" /\ h'.spawned = h.spawned + 1)]_vars


\* C32: after an attempt has come back TimedOut or Unresolved the discovery
\* manager starts no further attempt on its own: it has reported the status
\* and goes back to waiting for its next action.
C32_NoRetryByManager ==
    [][(/\ net.pc = "while"
        /\ net.status # None
        /\ unwrap(net.status).kind \in {"TimedOut", "Unresolved"})
       => net'.pc \in {"while", "recv"}]_vars


\* the client-info messages among the messages of q
ClientInfos(q) ==
    Cardinality({i \in 1..Len(q) :
        SubSeq(q[i].data, 1, 6) = <<MESSAGE_TYPE, INT32>> \o BE4(u32(CLIENT_INFO))})

\* C33: a LoggerState gets at most one client-info message: the insertion
\* has happened exactly when is_client_info_added is true (so the flag, once
\* true, stays true), and the queue and what was written hold together no
\* more client-info messages than were inserted.
C33_ClientInfoOnce ==
    /\ Len(h.info) <= 1
    /\ state.is_client_info_added <=> (Len(h.info) = 1)
    /\ ClientInfos(h.written) + ClientInfos(state.log_messages) = Len(h.info)

\* C33 witness: a second drain, by a later ADD_LOG on the connected logger,
\* wrote its message and inserted nothing
C33_Witness ==
    /\ state.is_client_info_added
    /\ h.trigger = Some("ADD_LOG")
    /\ Len(h.info) = 1
    /\ Len(h.written) = 3
    /\ h.written[1] = h.info[1]
    /\ ClientInfos(h.written) = 1


\* C34: connect_to_remote is executed only with an endpoint: whatever
\* invoked it last (worker startup, TRY_CONNECT or OPTION_CHANGE), remote_host
\* and remote_port were both present, and it never unwrapped a missing one.
C34_ConnectHasEndpoint ==
    /\ h.connect # None =>
          /\ unwrap(h.connect).host # None
          /\ unwrap(h.connect).port # None
    /\ h.fault # Some("unwrap_no_host")


\* a < b for two u32 values
Less32(a, b) == a[1] < b[1] \/ (a[1] = b[1] /\ a[2] < b[2])

IsClientInfo(m) ==
    SubSeq(m.data, 1, 6) = <<MESSAGE_TYPE, INT32>> \o BE4(u32(CLIENT_INFO))

\* every sequence number was allocated by log calls of one producer or by
\* the worker
SingleProducer ==
    Cardinality({h.allocators[i] : i \in 1..Len(h.allocators)} \ {"worker"}) <= 1

\* the place of m's sequence number among the allocations
AllocationIndex(m) ==
    CHOOSE k \in 1..Len(h.allocated) : h.allocated[k] = m.sequence_number

\* C35 as stated: with a single producer, the messages other than client-info
\* are written in strictly increasing sequence-number order, and a message
\* written ahead of one with a smaller sequence number is the client-info.
C35_WrittenIncreasing ==
    SingleProducer =>
        \A i, j \in 1..Len(h.written) :
            (i < j /\ ~IsClientInfo(h.written[i])) =>
                Less32(h.written[i].sequence_number, h.written[j].sequence_number)

\* C35 amended: with a single producer, the messages other than client-info
\* are written in the order their sequence numbers were allocated, and a
\* message written ahead of one allocated before it is the client-info.
C35_WrittenInAllocationOrder ==
    SingleProducer =>
        /\ \A i \in 1..Len(h.written) :
              \E k \in 1..Len(h.allocated) :
                  h.allocated[k] = h.written[i].sequence_number
        /\ \A i, j \in 1..Len(h.written) :
              (i < j /\ ~IsClientInfo(h.written[i])) =>
                  AllocationIndex(h.written[i]) < AllocationIndex(h.written[j])

\* C35 witness: one producer's two log calls got the last number of the
\* counter and then 0, and both messages were written, in that order
C35_Witness ==
    /\ SingleProducer
    /\ Len(h.written) = 2
    /\ h.written[1].sequence_number = LastSequenceNumber
    /\ h.written[2].sequence_number = u32(0)
    /\ h.written = h.added

====
